---- MODULE Spec2Model ----
(***************************************************************************)
(* Model of ddlconvert.py: convert_oracle_to_sqlite and                    *)
(* extract_create_table_block.                                             *)
(*                                                                         *)
(* Text is a sequence of atoms.  An atom is a single character (a          *)
(* parenthesis, a comma, a blank, a digit, ...) or an indivisible run of   *)
(* word characters (a keyword or a piece of an identifier).  Keywords      *)
(* that contain another keyword the program searches for are written as    *)
(* several atoms (VARCHAR2 = VAR CHAR 2, NOVALIDATE = NOVALI DATE), so a   *)
(* substring test of the program is a test on atoms.  Every regular        *)
(* expression of the program is an operator that scans the atoms the way   *)
(* the regular expression scans characters.                                *)
(***************************************************************************)
EXTENDS Naturals, Sequences, FiniteSets

\* ------------------------------------------------------------------ atoms

Space == {" ", "\n"}
Punct == {"(", ")", ",", ".", "-", "/", "*", "\"", ";", ">", ":"}
Digits == {"0", "1", "2", "5"}

\* str.upper() / re.IGNORECASE on one atom
Upper(a) ==
  CASE a = "create" -> "CREATE"
    [] a = "table" -> "TABLE"
    [] a = "number" -> "NUMBER"
    [] a = "float" -> "FLOAT"
    [] a = "id" -> "ID"
    [] a = "s" -> "S"
    [] a = "t" -> "T"
    [] a = "x" -> "X"
    [] OTHER -> a

\* \s, \w, \d
IsSpace(a) == a \in Space
IsWord(a) == a # "" /\ a \notin Space /\ a \notin Punct
IsDigit(a) == a \in Digits

\* the character at position i, "" outside the text
At(s, i) == IF i >= 1 /\ i <= Len(s) THEN s[i] ELSE ""

UpperSeq(s) == [k \in 1..Len(s) |-> Upper(s[k])]

\* s[i:j] of Python with 1-based i and exclusive j
Slice(s, i, j) == IF j <= i THEN <<>> ELSE SubSeq(s, i, j - 1)

\* a literal of a re.IGNORECASE pattern matches at i
LitAt(s, i, lit) ==
  /\ i >= 1
  /\ i + Len(lit) - 1 <= Len(s)
  /\ \A k \in 1..Len(lit) : Upper(s[i + k - 1]) = lit[k]

\* a literal of a case-sensitive search matches at i
ExactAt(s, i, lit) ==
  /\ i >= 1
  /\ i + Len(lit) - 1 <= Len(s)
  /\ \A k \in 1..Len(lit) : s[i + k - 1] = lit[k]

\* lit in s
Contains(s, lit) == \E i \in 1..Len(s) : ExactAt(s, i, lit)

RECURSIVE SkipSpace(_, _)
\* \s* from i: the position after the run
SkipSpace(s, i) == IF IsSpace(At(s, i)) THEN SkipSpace(s, i + 1) ELSE i

RECURSIVE SkipWord(_, _)
\* \w* from i
SkipWord(s, i) == IF IsWord(At(s, i)) THEN SkipWord(s, i + 1) ELSE i

RECURSIVE SkipDigit(_, _)
\* \d* from i
SkipDigit(s, i) == IF IsDigit(At(s, i)) THEN SkipDigit(s, i + 1) ELSE i

Min(S) == CHOOSE x \in S : \A y \in S : x <= y
Max(S) == CHOOSE x \in S : \A y \in S : y <= x

\* the first position >= i holding atom a, 0 when there is none
FindAtom(s, i, a) ==
  LET J == {j \in i..Len(s) : s[j] = a} IN IF J = {} THEN 0 ELSE Min(J)

RECURSIVE ReSub(_, _, _, _)
\* re.sub(pattern, repl, s) from position i: M(s, i) is the position after
\* the match that starts at i (0: no match), R(s, i, e) is the replacement
\* of it; the text between two matches is copied
ReSub(M(_, _), R(_, _, _), s, i) ==
  IF \E j \in i..Len(s) : M(s, j) > j
  THEN LET b == CHOOSE j \in i..Len(s) :
                  M(s, j) > j /\ \A k \in i..(j - 1) : M(s, k) <= k
       IN Slice(s, i, b) \o R(s, b, M(s, b)) \o ReSub(M, R, s, M(s, b))
  ELSE Slice(s, i, Len(s) + 1)

Empty(s, i, e) == <<>>

\* str.strip() / lstrip / rstrip for whitespace
RECURSIVE LStrip(_)
LStrip(s) == IF s # <<>> /\ IsSpace(Head(s)) THEN LStrip(Tail(s)) ELSE s
RECURSIVE RStrip(_)
RStrip(s) ==
  IF s # <<>> /\ IsSpace(s[Len(s)]) THEN RStrip(SubSeq(s, 1, Len(s) - 1)) ELSE s
Strip(s) == LStrip(RStrip(s))

\* ------------------------------------------------------------ preprocessor

\* r'--.*?$' MULTILINE: from -- to the end of the line
LineCommentAt(s, i) ==
  IF ExactAt(s, i, <<"-", "-">>)
  THEN LET nl == FindAtom(s, i + 2, "\n") IN IF nl = 0 THEN Len(s) + 1 ELSE nl
  ELSE 0

\* the first position >= i where */ starts, 0 when there is none
FindBlockEnd(s, i) ==
  LET J == {j \in i..(Len(s) - 1) : s[j] = "*" /\ s[j + 1] = "/"}
  IN IF J = {} THEN 0 ELSE Min(J)

\* r'/\*.*?\*/' DOTALL
BlockCommentAt(s, i) ==
  IF ExactAt(s, i, <<"/", "*">>)
  THEN LET c == FindBlockEnd(s, i + 2) IN IF c = 0 THEN 0 ELSE c + 2
  ELSE 0

NOVALIDATE == <<"NOVALI", "DATE">>

\* r'\bKEYWORD\b' IGNORECASE
WordAt(s, i, lit) ==
  IF /\ LitAt(s, i, lit)
     /\ ~IsWord(At(s, i - 1))
     /\ ~IsWord(At(s, i + Len(lit)))
  THEN i + Len(lit)
  ELSE 0

NovalidateAt(s, i) == WordAt(s, i, NOVALIDATE)

\* r'\s+'
SpaceRunAt(s, i) == IF IsSpace(At(s, i)) THEN SkipSpace(s, i) ELSE 0
OneSpace(s, i, e) == <<" ">>

\* lines 38-41
Preprocess(sql) ==
  LET a == ReSub(LineCommentAt, Empty, sql, 1)
      b == ReSub(BlockCommentAt, Empty, a, 1)
      c == ReSub(NovalidateAt, Empty, b, 1)
  IN Strip(ReSub(SpaceRunAt, OneSpace, c, 1))

\* ------------------------------------------------------- regex fragments
\* A position 0 means "no match so far" and is passed through.

None == <<"None">>

\* a literal, IGNORECASE
Lit(s, p, lit) == IF p # 0 /\ LitAt(s, p, lit) THEN p + Len(lit) ELSE 0
\* one character
Chr(s, p, a) == IF p # 0 /\ At(s, p) = a THEN p + 1 ELSE 0
\* \s+
Space1(s, p) == IF p # 0 /\ IsSpace(At(s, p)) THEN SkipSpace(s, p) ELSE 0
\* \s*
Space0(s, p) == IF p # 0 THEN SkipSpace(s, p) ELSE 0
\* \w+
Word1(s, p) == IF p # 0 /\ IsWord(At(s, p)) THEN SkipWord(s, p) ELSE 0
\* \d+
Digit1(s, p) == IF p # 0 /\ IsDigit(At(s, p)) THEN SkipDigit(s, p) ELSE 0
\* "?
OptQuote(s, p) == IF p # 0 /\ At(s, p) = "\"" THEN p + 1 ELSE p
\* "?(\w+)"?
QIdent(s, p) == OptQuote(s, Word1(s, OptQuote(s, p)))

\* -------------------------------------------------- constraint extractor

\* lines 44-46: the pattern up to and including the "(" of the column list
PkOpenAt(s, i) ==
  LET p1 == Lit(s, i, <<"ALTER", " ", "TABLE">>)
      p2 == QIdent(s, Space1(s, p1))
      p3 == QIdent(s, Chr(s, p2, "."))
      p4 == Lit(s, Space1(s, p3), <<"ADD", " ", "CONSTRAINT">>)
      p5 == QIdent(s, Space1(s, p4))
      p6 == Lit(s, Space1(s, p5), <<"PRIMARY", " ", "KEY">>)
  IN Chr(s, Space1(s, p6), "(")

\* ... \(([^)]+)\): the position of the closing ")" of the match at i
PkCloseAt(s, i) ==
  LET o == PkOpenAt(s, i)
      c == IF o = 0 THEN 0 ELSE FindAtom(s, o, ")")
  IN IF c > o THEN c ELSE 0

\* lines 44-47: re.search(...).group(3).strip(), None without a match
ExtractPrimaryKeyField(sql) ==
  LET I == {i \in 1..Len(sql) : PkCloseAt(sql, i) # 0} IN
  IF I = {} THEN None
  ELSE LET i == Min(I) IN Strip(Slice(sql, PkOpenAt(sql, i), PkCloseAt(sql, i)))

\* -------------------------------------------------------- block extractor

\* line 21: CREATE TABLE\s+"?([\w\d_]+)"?\."?  -- the start of group 2
HeaderTableAt(s, i) ==
  LET p1 == Lit(s, i, <<"CREATE", " ", "TABLE">>)
      p2 == QIdent(s, Space1(s, p1))
  IN OptQuote(s, Chr(s, p2, "."))

\* line 21 with the schema part optional: CREATE TABLE\s+"?\w+"?(\."?\w+"?)?\s*\(
HeaderEndAtAnyName(s, i) ==
  LET n == QIdent(s, Space1(s, Lit(s, i, <<"CREATE", " ", "TABLE">>)))
      p == IF Chr(s, n, ".") # 0 THEN QIdent(s, Chr(s, n, ".")) ELSE n
  IN Chr(s, Space0(s, p), "(")

\* line 21: match.end() of a match that starts at i, 0 without a match
HeaderEndAt(s, i) ==
  LET t == HeaderTableAt(s, i)
      p == OptQuote(s, Word1(s, t))
  IN Chr(s, Space0(s, p), "(")

\* line 21: match.start() of re.search, 0 without a match
HeaderSearch(sql) ==
  LET I == {i \in 1..Len(sql) : HeaderEndAt(sql, i) # 0} IN
  IF I = {} THEN 0 ELSE Min(I)

\* lines 28-33 without the depth counter: the scan stops after the first ")"
ScanEndFirstClose(sql, end, depth) ==
  LET c == FindAtom(sql, end, ")") IN IF c = 0 THEN Len(sql) + 1 ELSE c + 1

RECURSIVE ScanEnd(_, _, _)
\* lines 28-33: the while loop; end and the result are 1-based positions.
\* The iterations over characters other than "(" and ")" only advance end,
\* so the loop is taken from one parenthesis to the next.
ScanEnd(sql, end, depth) ==
  IF end <= Len(sql) /\ depth > 0
  THEN LET J == {j \in end..Len(sql) : sql[j] \in {"(", ")"}} IN
       IF J = {} THEN Len(sql) + 1
       ELSE ScanEnd(sql, Min(J) + 1,
                    IF sql[Min(J)] = "(" THEN depth + 1 ELSE depth - 1)
  ELSE end

\* lines 20-35: <<table_name, block>>
extract_create_table_block(sql) ==
  LET m == HeaderSearch(sql) IN
  IF m = 0 THEN <<None, None>>
  ELSE LET t == HeaderTableAt(sql, m)
           start == HeaderEndAt(sql, m)
           end == ScanEnd(sql, start, 1)
       IN <<Slice(sql, t, SkipWord(sql, t)), Slice(sql, m, end)>>

\* ---------------------------------------------------------- item splitter

\* line 55: "(\w+)"\."(\w+)"
QuotedPairAt(s, i) ==
  LET p1 == Chr(s, Word1(s, Chr(s, i, "\"")), "\"")
      p2 == Chr(s, Chr(s, p1, "."), "\"")
  IN Chr(s, Word1(s, p2), "\"")
\* r'\2'
SecondName(s, i, e) ==
  LET p1 == Chr(s, Word1(s, Chr(s, i, "\"")), "\"") IN Slice(s, p1 + 2, e - 1)

QuoteAt(s, i) == IF At(s, i) = "\"" THEN i + 1 ELSE 0

\* lines 55-56
StripQuotes(block) ==
  ReSub(QuoteAt, Empty, ReSub(QuotedPairAt, SecondName, block, 1), 1)

\* str.rfind: the last position <= i holding atom a, 0 when there is none
FindLast(s, i, a) ==
  LET J == {j \in 1..i : s[j] = a} IN IF J = {} THEN 0 ELSE Max(J)

\* line 82: create_block[find('(')+1 : rfind(')')]; rfind's -1 is the
\* slice end "before the last character" (every text of Inputs without a
\* ")" ends in an atom of one character)
Inner(block) ==
  LET f == FindAtom(block, 1, "(")
      r == FindLast(block, Len(block), ")")
      from == IF f = 0 THEN 1 ELSE f + 1
  IN IF r = 0 THEN Slice(block, from, Len(block)) ELSE Slice(block, from, r)

\* line 83: ,(?![^(]*\)) -- a comma not followed by a ")" that comes
\* before the next "("
SplitPoint(s, k) ==
  /\ At(s, k) = ","
  /\ LET c == FindAtom(s, k + 1, ")")
         o == FindAtom(s, k + 1, "(")
     IN ~(c # 0 /\ (o = 0 \/ c < o))

RECURSIVE SplitFrom(_, _)
\* re.split: the pieces between the split points, from piece start b
SplitFrom(s, b) ==
  LET K == {k \in b..Len(s) : SplitPoint(s, k)} IN
  IF K = {} THEN <<Slice(s, b, Len(s) + 1)>>
  ELSE <<Slice(s, b, Min(K))>> \o SplitFrom(s, Min(K) + 1)

\* line 83
SplitItems(inner) ==
  LET pieces == SplitFrom(inner, 1) IN
  [k \in 1..Len(pieces) |-> Strip(pieces[k])]

\* ---------------------------------------------------------- item rewriter

\* line 87: CONSTRAINT\s+\w+\s+
ConstraintAt(s, i) == Space1(s, Word1(s, Space1(s, Lit(s, i, <<"CONSTRAINT">>))))
\* line 88
EnableAt(s, i) == WordAt(s, i, <<"ENABLE">>)
\* line 89
DisableAt(s, i) == WordAt(s, i, <<"DISABLE">>)
\* line 91: TABLESPACE\s+\w+
TablespaceAt(s, i) == Word1(s, Space1(s, Lit(s, i, <<"TABLESPACE">>)))
\* line 92: SEGMENT CREATION\s+\w+
SegmentAt(s, i) == Word1(s, Space1(s, Lit(s, i, <<"SEGMENT", " ", "CREATION">>)))

\* "." matches no line break: c is reached from p by .*? when no "\n" lies
\* between them
DotRun(s, p, c) == LET nl == FindAtom(s, p, "\n") IN nl = 0 \/ nl >= c

\* line 93: STORAGE\s*\(.*?\) -- up to the first ")"
StorageAt(s, i) ==
  LET p == Chr(s, Space0(s, Lit(s, i, <<"STORAGE">>)), "(")
      c == IF p = 0 THEN 0 ELSE FindAtom(s, p, ")")
  IN IF c # 0 /\ DotRun(s, p, c) THEN c + 1 ELSE 0

\* line 94: SUPPLEMENTAL LOG DATA\s*\(.*?\)\s*COLUMNS
SupplementalAt(s, i) ==
  LET p == Chr(s, Space0(s, Lit(s, i, <<"SUPPLEMENTAL", " ", "LOG", " ", "DATA">>)), "(")
      C == IF p = 0 THEN {}
           ELSE {c \in p..Len(s) :
                   /\ s[c] = ")"
                   /\ DotRun(s, p, c)
                   /\ Lit(s, Space0(s, c + 1), <<"COLUMNS">>) # 0}
  IN IF C = {} THEN 0 ELSE Lit(s, Space0(s, Min(C) + 1), <<"COLUMNS">>)

\* line 95: USING INDEX\s+.*
UsingIndexAt(s, i) ==
  LET p == Space1(s, Lit(s, i, <<"USING", " ", "INDEX">>))
      nl == IF p = 0 THEN 0 ELSE FindAtom(s, p, "\n")
  IN IF p = 0 THEN 0 ELSE IF nl = 0 THEN Len(s) + 1 ELSE nl

\* lines 87-95
StripClauses(item) ==
  LET a == ReSub(ConstraintAt, Empty, item, 1)
      b == ReSub(EnableAt, Empty, a, 1)
      c == ReSub(DisableAt, Empty, b, 1)
      d == ReSub(NovalidateAt, Empty, c, 1)
      e == ReSub(TablespaceAt, Empty, d, 1)
      f == ReSub(SegmentAt, Empty, e, 1)
      g == ReSub(StorageAt, Empty, f, 1)
      h == ReSub(SupplementalAt, Empty, g, 1)
  IN ReSub(UsingIndexAt, Empty, h, 1)

\* line 98: IN\s*\( -- the position after the "("
InOpenAt(s, i) == Chr(s, Space0(s, Lit(s, i, <<"IN">>)), "(")
\* line 98: ([^)]+?)NULL([^)]+?)\) -- the position of NULL: the first one
\* with a character before it and a character between it and the first ")"
InNullPosAt(s, i) ==
  LET p == InOpenAt(s, i)
      c == IF p = 0 THEN 0 ELSE FindAtom(s, p, ")")
      K == IF c = 0 THEN {}
           ELSE {k \in (p + 1)..(c - 2) : LitAt(s, k, <<"NULL">>)}
  IN IF K = {} THEN 0 ELSE Min(K)
InNullAt(s, i) ==
  IF InNullPosAt(s, i) = 0 THEN 0 ELSE FindAtom(s, InOpenAt(s, i), ")") + 1
\* r'IN (\1\2) OR NEGATION IS NULL'
InNullRepl(s, i, e) ==
  LET p == InOpenAt(s, i)
      k == InNullPosAt(s, i)
  IN <<"IN", " ", "(">> \o Slice(s, p, k) \o Slice(s, k + 1, e - 1)
       \o <<")", " ", "OR", " ", "NEGATION", " ", "IS", " ", "NULL">>

\* line 98
FixInNull(item) == ReSub(InNullAt, InNullRepl, item, 1)

VARCHAR2 == <<"VAR", "CHAR", "2">>

\* (CHAR|BYTE)
CharOrByte(s, p) ==
  IF Lit(s, p, <<"CHAR">>) # 0 THEN Lit(s, p, <<"CHAR">>) ELSE Lit(s, p, <<"BYTE">>)
\* \(\s*(\d+) -- the start of the digits
LenDigitsAt(s, p) == Space0(s, Chr(s, p, "("))
\* \(\s*(\d+)\s+(CHAR|BYTE)\s*\)
LenQualifier(s, p) ==
  Chr(s, Space0(s, CharOrByte(s, Space1(s, Digit1(s, LenDigitsAt(s, p))))), ")")
\* line 101: (CHAR|VARCHAR2) -- the end of group 1 of the match at i
CharNameAt(s, i) ==
  IF LenQualifier(s, Space0(s, Lit(s, i, <<"CHAR">>))) # 0
  THEN Lit(s, i, <<"CHAR">>)
  ELSE IF LenQualifier(s, Space0(s, Lit(s, i, VARCHAR2))) # 0
  THEN Lit(s, i, VARCHAR2)
  ELSE 0
\* line 101: (CHAR|VARCHAR2)\s*\(\s*(\d+)\s+(CHAR|BYTE)\s*\)
CharLenAt(s, i) == LenQualifier(s, Space0(s, CharNameAt(s, i)))
\* r'\1(\2)'
CharLenRepl(s, i, e) ==
  LET n == CharNameAt(s, i)
      d == LenDigitsAt(s, Space0(s, n))
  IN Slice(s, i, n) \o <<"(">> \o Slice(s, d, SkipDigit(s, d)) \o <<")">>

\* line 104: NUMBER\s*\(\s*(\d+) -- the start of group 1
NumberPrecAt(s, i) == Space0(s, Chr(s, Space0(s, Lit(s, i, <<"NUMBER">>)), "("))
\* line 104: ... \s*,\s*(\d+) -- the start of group 2
NumberScaleAt(s, i) ==
  Space0(s, Chr(s, Space0(s, Digit1(s, NumberPrecAt(s, i))), ","))
\* line 104: NUMBER\s*\(\s*(\d+)\s*,\s*(\d+)\s*\)
NumberPSAt(s, i) == Chr(s, Space0(s, Digit1(s, NumberScaleAt(s, i))), ")")
\* r'NUMBER(\1,\2)'
NumberPSRepl(s, i, e) ==
  LET a == NumberPrecAt(s, i)
      b == NumberScaleAt(s, i)
  IN <<"NUMBER", "(">> \o Slice(s, a, SkipDigit(s, a)) \o <<",">>
       \o Slice(s, b, SkipDigit(s, b)) \o <<")">>
\* line 105: NUMBER\s*\(\s*(\d+)\s*\)
NumberPAt(s, i) == Chr(s, Space0(s, Digit1(s, NumberPrecAt(s, i))), ")")
\* r'NUMBER(\1)'
NumberPRepl(s, i, e) ==
  LET a == NumberPrecAt(s, i)
  IN <<"NUMBER", "(">> \o Slice(s, a, SkipDigit(s, a)) \o <<")">>

\* lines 101-105
UnifyTypes(item) ==
  LET a == ReSub(CharLenAt, CharLenRepl, item, 1)
      b == ReSub(NumberPSAt, NumberPSRepl, a, 1)
  IN ReSub(NumberPAt, NumberPRepl, b, 1)

\* line 63: \(\s*(\d+)\s+(CHAR|BYTE)\s*\)
LenQualAt(s, i) == LenQualifier(s, i)
\* r'(\1)'
LenQualRepl(s, i, e) ==
  LET d == LenDigitsAt(s, i) IN <<"(">> \o Slice(s, d, SkipDigit(s, d)) \o <<")">>

\* line 65: re.match(r'NUMBER\s*\(\d+,\s*0\)', t)
IsNumberScale0(t) ==
  LET p == Digit1(t, Chr(t, Space0(t, Lit(t, 1, <<"NUMBER">>)), "("))
  IN Chr(t, Chr(t, Space0(t, Chr(t, p, ",")), "0"), ")") # 0
\* line 67: re.match(r'NUMBER\s*\(\d+,\s*\d+\)', t)
IsNumberScale(t) ==
  LET p == Digit1(t, Chr(t, Space0(t, Lit(t, 1, <<"NUMBER">>)), "("))
  IN Chr(t, Digit1(t, Space0(t, Chr(t, p, ","))), ")") # 0
\* line 69: re.match(r'NUMBER\s*\(\d+\)', t)
IsNumberPrec(t) ==
  Chr(t, Digit1(t, Chr(t, Space0(t, Lit(t, 1, <<"NUMBER">>)), "(")), ")") # 0

\* lines 59-79
map_oracle_type(t0) ==
  LET t == ReSub(LenQualAt, LenQualRepl, UpperSeq(t0), 1) IN
  IF IsNumberScale0(t) THEN <<"INTEGER">>
  ELSE IF IsNumberScale(t) THEN <<"REAL">>
  ELSE IF IsNumberPrec(t) THEN <<"INTEGER">>
  ELSE IF Contains(t, <<"NUMBER">>) THEN <<"INTEGER">>
  ELSE IF Contains(t, VARCHAR2) \/ Contains(t, <<"CHAR">>) \/ Contains(t, <<"CLOB">>)
  THEN <<"TEXT">>
  ELSE IF Contains(t, <<"DATE">>) \/ Contains(t, <<"TIMESTAMP">>) THEN <<"TEXT">>
  ELSE IF Contains(t, <<"BLOB">>) THEN <<"BLOB">>
  ELSE t

RECURSIVE SkipNonSpace(_, _)
SkipNonSpace(s, i) ==
  IF i <= Len(s) /\ ~IsSpace(s[i]) THEN SkipNonSpace(s, i + 1) ELSE i

RECURSIVE SplitWords(_, _)
\* str.split(): the runs of non-blank characters from position i
SplitWords(s, i) ==
  LET b == SkipSpace(s, i) IN
  IF b > Len(s) THEN <<>>
  ELSE <<Slice(s, b, SkipNonSpace(s, b))>> \o SplitWords(s, SkipNonSpace(s, b))

RECURSIVE Join(_, _)
\* sep.join(list)
Join(list, sep) ==
  IF list = <<>> THEN <<>>
  ELSE IF Len(list) = 1 THEN list[1]
  ELSE list[1] \o sep \o Join(Tail(list), sep)

\* .? at j
OptDot(s, j) == IF At(s, j) = "." THEN {j, j + 1} ELSE {j}

\* line 115: DEFAULT\s+\w+\.?\w*\.?NEXTVAL matches at i
DefaultSeqAt(s, i) ==
  LET p == Space1(s, Lit(s, i, <<"DEFAULT">>)) IN
  /\ p # 0
  /\ \E j1 \in (p + 1)..SkipWord(s, p) :
       \E j2 \in OptDot(s, j1) :
         \E j3 \in j2..SkipWord(s, j2) :
           \E j4 \in OptDot(s, j3) : LitAt(s, j4, <<"NEXTVAL">>)

\* line 115: re.search
HasDefaultSeq(rest) == \E i \in 1..Len(rest) : DefaultSeqAt(rest, i)

\* f"{col_name} INTEGER PRIMARY KEY AUTOINCREMENT"
AutoItem(col_name) ==
  col_name \o <<" ", "INTEGER", " ", "PRIMARY", " ", "KEY", " ", "AUTOINCREMENT">>

\* line 116: the condition of the autoincrement rewrite
IsSequenceKey(pts, pk) ==
  /\ HasDefaultSeq(Join(SubSeq(pts, 3, Len(pts)), <<" ">>))
  /\ pk # None
  /\ pk # <<>>
  /\ UpperSeq(pts[1]) = UpperSeq(pk)

\* lines 108-120: the item after the type fix
FixTypeItem(item, pk) ==
  LET pts == SplitWords(item, 1) IN
  IF Len(pts) >= 2
  THEN IF IsSequenceKey(pts, pk)
       THEN AutoItem(pts[1])
       ELSE Strip(pts[1] \o <<" ">> \o map_oracle_type(pts[2]) \o <<" ">>
                    \o Join(SubSeq(pts, 3, Len(pts)), <<" ">>))
  ELSE item

\* lines 116-118: the pending primary key after the type fix
FixTypeKey(item, pk) ==
  LET pts == SplitWords(item, 1) IN
  IF Len(pts) >= 2 /\ IsSequenceKey(pts, pk) THEN None ELSE pk

RECURSIVE RStripComma(_)
\* str.rstrip(',')
RStripComma(s) ==
  IF s # <<>> /\ s[Len(s)] = "," THEN RStripComma(SubSeq(s, 1, Len(s) - 1)) ELSE s

\* line 122
TrimItem(item) == RStripComma(Strip(item))

\* lines 123-124
AppendCleaned(cleaned, item) == IF item # <<>> THEN Append(cleaned, item) ELSE cleaned

\* f'PRIMARY KEY ({primary_key_field})'
KeyItem(pk) == <<"PRIMARY", " ", "KEY", " ", "(">> \o pk \o <<")">>

\* lines 127-128 with the test never true: the pending key is dropped
AppendPrimaryKeyNever(cleaned, pk) == cleaned

\* lines 127-128
AppendPrimaryKey(cleaned, pk) ==
  IF pk # None /\ pk # <<>> THEN Append(cleaned, KeyItem(pk)) ELSE cleaned

\* line 131
AssembleResult(name, cleaned) ==
  <<"CREATE", " ", "TABLE", " ", "IF", " ", "NOT", " ", "EXISTS", " ">> \o name
    \o <<" ", "(", "\n", " ", " ">> \o Join(cleaned, <<",", "\n", " ", " ">>)
    \o <<"\n", ")", ";">>

\* line 52
ErrorMarker ==
  <<"-", "-", " ", "ERROR", ":", " ", "CREATE", " ", "TABLE", " ",
    "block", " ", "not", " ", "found">>

\* ------------------------------------------------------------------ inputs

MaxItems == 2
MaxPreLen == 4
MaxBodyLen == 4

ItemSeqKey ==
  <<"id", " ", "NUMBER", "(", "1", "0", ")", " ", "DEFAULT", " ", "SEQ", ".",
    "NEXTVAL">>

ItemQuotedSeqKey ==
  <<"\"", "ID", "\"", " ", "NUMBER", "(", "1", "0", ",", "0", ")", " ",
    "DEFAULT", " ", "\"", "S", "\"", ".", "\"", "SEQ", "\"", ".", "NEXTVAL",
    " ", "NOT", " ", "NULL", " ", "ENABLE">>

ItemPlainKey ==
  <<"ID", " ", "NUMBER", "(", "1", "0", ")">>

ItemVarchar ==
  <<"NAME", " ", "VAR", "CHAR", "2", "(", "5", "0", " ", "CHAR", ")", " ",
    "TABLESPACE", " ", "USERS", " ", "NOVALI", "DATE">>

ItemReal ==
  <<"AMT", " ", "number", " ", "(", "5", " ", ",", " ", "2", ")">>

ItemCheckInNull ==
  <<"CONSTRAINT", " ", "CK", " ", "CHECK", " ", "(", "X", " ", "IN", " ",
    "(", "1", ",", " ", "NULL", ",", " ", "2", ")", " ", "OR", " ", "X", " ",
    "IN", " ", "(", "NULL", ",", " ", "1", ")", ")", " ", "ENABLE">>

ItemCheckNumberOf ==
  <<"CONSTRAINT", " ", "CK", " ", "CHECK", " ", "(", "NUMBER", "_OF", " ",
    ">", " ", "0", ")", " ", "ENABLE">>

ItemStorage ==
  <<"A", " ", "NUMBER", " ", "STORAGE", " ", "(", "INITIAL", " ", "(", "1",
    ")", " ", "NEXT", " ", "2", ")">>

ItemCheckNested ==
  <<"CHECK", " ", "(", "F", "(", "X", ",", " ", "G", "(", "X", ")", ")", " ",
    ">", " ", "0", ")">>

\* the column-list entries the item lists are drawn from
ItemPool ==
  {ItemSeqKey,
   ItemQuotedSeqKey,
   ItemPlainKey,
   ItemVarchar,
   ItemCheckInNull,
   ItemCheckNumberOf,
   ItemStorage}

PlainFrame ==
  [head |->
      <<"-", "-", " ", "x", "\n", "create", " ", "table", " ", "s", ".", "t",
        "(", "B", " ", "float", ",", " ">>,
   tail |->
      <<")", " ", "/", "*", " ", "x", " ", "*", "/">>]

KeyedFrame ==
  [head |->
      <<"CREATE", " ", "TABLE", " ", "S", ".", "T", " ", "(">>,
   tail |->
      <<",", " ">> \o ItemReal \o
      <<",", " ", "D", " ", "DATE", ")", " ", ";", " ", "ALTER", " ",
        "TABLE", " ", "S", ".", "T", " ", "ADD", " ", "CONSTRAINT", " ",
        "PK", " ", "PRIMARY", " ", "KEY", " ", "(", "ID", ")">>]

QuotedKeyedFrame ==
  [head |->
      <<"CREATE", " ", "TABLE", " ", "\"", "S", "\"", ".", "\"", "T", "\"",
        "\n", "(">>,
   tail |->
      <<")", " ", "TABLESPACE", " ", "USERS", " ", ";", "\n", "ALTER", " ",
        "TABLE", " ", "\"", "S", "\"", ".", "\"", "T", "\"", " ", "ADD", " ",
        "CONSTRAINT", " ", "\"", "PK", "\"", " ", "PRIMARY", " ", "KEY", " ",
        "(", "\"", "ID", "\"", ")", " ", "ENABLE">>]

TwoKeyedFrame ==
  [head |->
      <<"ALTER", " ", "TABLE", " ", "S", ".", "T", " ", "ADD", " ",
        "CONSTRAINT", " ", "PK", " ", "PRIMARY", " ", "KEY", " ", "(", "ID",
        ",", " ", "NAME", ")", ";", " ", "CREATE", " ", "TABLE", " ", "S",
        ".", "T", " ", "(">>,
   tail |->
      <<",", " ", "AMOUNT", " ", "NUMBER", "(", "5", ",", "0", "0", ")", ",",
        " ">> \o ItemCheckNested \o <<",", " ", "C", " ", "BLOB", ")">>]

NoSchemaFrame ==
  [head |->
      <<"CREATE", " ", "TABLE", " ", "T", " ", "(">>,
   tail |->
      <<")", " ", ";", " ", "ALTER", " ", "TABLE", " ", "S", ".", "T", " ",
        "ADD", " ", "CONSTRAINT", " ", "PK", " ", "PRIMARY", " ", "KEY", " ",
        "(", "ID", ")">>]

CommentedFrame ==
  [head |->
      <<"-", "-", " ", "CREATE", " ", "TABLE", " ", "S", ".", "T", " ", "(">>,
   tail |->
      <<")">>]

Frames ==
  {PlainFrame,
   KeyedFrame,
   QuotedKeyedFrame,
   TwoKeyedFrame,
   NoSchemaFrame,
   CommentedFrame}

\* the sequences of at most n elements of S
SeqUpTo(S, n) == UNION {[1..k -> S] : k \in 0..n}

\* DDL texts: a frame around a list of items
DdlInputs ==
  {f.head \o Join(list, <<",", " ">>) \o f.tail :
     f \in Frames, list \in SeqUpTo(ItemPool, MaxItems) \ {<<>>}}

\* short texts of comment markers, blanks and keywords
PrePieces == {<<"-">>, <<"/">>, <<"*">>, <<"\n">>, <<" ">>, NOVALIDATE, <<"A">>}
PreInputs == {Join(l, <<>>) : l \in SeqUpTo(PrePieces, MaxPreLen)}

\* item lists of parentheses and commas, balanced or not
ParenAtoms == {"(", ")", ",", "A"}
ParenTails == {<<>>, <<")", " ", "A", ")">>}
ParenInputs ==
  {KeyedFrame.head \o b \o t : b \in SeqUpTo(ParenAtoms, MaxBodyLen), t \in ParenTails}

Inputs == DdlInputs \cup PreInputs \cup ParenInputs

\* ----------------------------------------------------------- state machine

VARIABLES
  pc,                 \* the statement convert_oracle_to_sqlite is at
  oracle_sql,         \* the argument, then the normalized text
  primary_key_field,  \* the pending primary key, None when absent or consumed
  table_name,
  create_block,
  inner,
  items,
  idx,                \* the position of the for loop in items
  item,
  cleaned_items,
  result              \* the returned string, None before the return

vars == <<pc, oracle_sql, primary_key_field, table_name, create_block, inner,
          items, idx, item, cleaned_items, result>>

Init ==
  /\ pc = "preprocess"
  /\ oracle_sql \in Inputs
  /\ primary_key_field = None
  /\ table_name = None
  /\ create_block = None
  /\ inner = <<>>
  /\ items = <<>>
  /\ idx = 0
  /\ item = <<>>
  /\ cleaned_items = <<>>
  /\ result = None

\* lines 38-41
PreprocessStep ==
  /\ pc = "preprocess"
  /\ oracle_sql' = Preprocess(oracle_sql)
  /\ pc' = "extract_pk"
  /\ UNCHANGED <<primary_key_field, table_name, create_block, inner, items, idx,
                 item, cleaned_items, result>>

\* lines 44-47
ExtractPrimaryKey ==
  /\ pc = "extract_pk"
  /\ primary_key_field' = ExtractPrimaryKeyField(oracle_sql)
  /\ pc' = "extract_block"
  /\ UNCHANGED <<oracle_sql, table_name, create_block, inner, items, idx, item,
                 cleaned_items, result>>

\* lines 50-52
ExtractBlock ==
  /\ pc = "extract_block"
  /\ LET r == extract_create_table_block(oracle_sql) IN
     /\ table_name' = r[1]
     /\ create_block' = r[2]
     /\ IF r[2] = None \/ r[2] = <<>>
        THEN result' = ErrorMarker /\ pc' = "done"
        ELSE result' = result /\ pc' = "split"
  /\ UNCHANGED <<oracle_sql, primary_key_field, inner, items, idx, item,
                 cleaned_items>>

\* lines 55-56 and 82-84
SplitBlock ==
  /\ pc = "split"
  /\ create_block' = StripQuotes(create_block)
  /\ inner' = Inner(create_block')
  /\ items' = SplitItems(inner')
  /\ cleaned_items' = <<>>
  /\ idx' = 1
  /\ pc' = "strip"
  /\ UNCHANGED <<oracle_sql, primary_key_field, table_name, item, result>>

\* lines 86-95
StripItem ==
  /\ pc = "strip"
  /\ item' = StripClauses(items[idx])
  /\ pc' = "fix_in"
  /\ UNCHANGED <<oracle_sql, primary_key_field, table_name, create_block, inner,
                 items, idx, cleaned_items, result>>

\* line 98
FixIn ==
  /\ pc = "fix_in"
  /\ item' = FixInNull(item)
  /\ pc' = "unify"
  /\ UNCHANGED <<oracle_sql, primary_key_field, table_name, create_block, inner,
                 items, idx, cleaned_items, result>>

\* lines 101-105
Unify ==
  /\ pc = "unify"
  /\ item' = UnifyTypes(item)
  /\ pc' = "fix_type"
  /\ UNCHANGED <<oracle_sql, primary_key_field, table_name, create_block, inner,
                 items, idx, cleaned_items, result>>

\* lines 108-120
FixType ==
  /\ pc = "fix_type"
  /\ item' = FixTypeItem(item, primary_key_field)
  /\ primary_key_field' = FixTypeKey(item, primary_key_field)
  /\ pc' = "append"
  /\ UNCHANGED <<oracle_sql, table_name, create_block, inner, items, idx,
                 cleaned_items, result>>

\* lines 122-124 and the loop of line 86
AppendItem ==
  /\ pc = "append"
  /\ item' = TrimItem(item)
  /\ cleaned_items' = AppendCleaned(cleaned_items, item')
  /\ idx' = idx + 1
  /\ pc' = IF idx < Len(items) THEN "strip" ELSE "assemble"
  /\ UNCHANGED <<oracle_sql, primary_key_field, table_name, create_block, inner,
                 items, result>>

\* lines 127-132
Assemble ==
  /\ pc = "assemble"
  /\ cleaned_items' = AppendPrimaryKey(cleaned_items, primary_key_field)
  /\ result' = AssembleResult(table_name, cleaned_items')
  /\ pc' = "done"
  /\ UNCHANGED <<oracle_sql, primary_key_field, table_name, create_block, inner,
                 items, idx, item>>

Next ==
  \/ PreprocessStep
  \/ ExtractPrimaryKey
  \/ ExtractBlock
  \/ SplitBlock
  \/ StripItem
  \/ FixIn
  \/ Unify
  \/ FixType
  \/ AppendItem
  \/ Assemble

Spec == Init /\ [][Next]_vars

\* ------------------------------------------------- properties: C1 and C10

\* positions a..b-1 hold blanks / word characters
SpaceRun(s, a, b) == \A k \in a..(b - 1) : IsSpace(s[k])
WordRun(s, a, b) == \A k \in a..(b - 1) : IsWord(s[k])
\* an optional double quote of width q at p
Quoted(s, p, q) == q = 1 => At(s, p) = "\""

\* some text starting at i has the shape
\* CREATE TABLE <blanks> ["]name["] . ["]name["] [blanks] (
HeaderShapeAt(s, i) ==
  /\ LitAt(s, i, <<"CREATE", " ", "TABLE">>)
  /\ \E a \in (i + 4)..Len(s) : SpaceRun(s, i + 3, a) /\
     \E q1 \in 0..1 : Quoted(s, a, q1) /\
     \E b \in (a + q1 + 1)..Len(s) : WordRun(s, a + q1, b) /\
     \E q2 \in 0..1 : Quoted(s, b, q2) /\ At(s, b + q2) = "." /\
     \E q3 \in 0..1 : Quoted(s, b + q2 + 1, q3) /\
     \E c \in (b + q2 + q3 + 2)..Len(s) : WordRun(s, b + q2 + q3 + 1, c) /\
     \E q4 \in 0..1 : Quoted(s, c, q4) /\
     \E d \in (c + q4)..Len(s) : SpaceRun(s, c + q4, d) /\ s[d] = "("

ContainsHeader(s) == \E i \in 1..Len(s) : HeaderShapeAt(s, i)

\* C1: when the normalized text holds no CREATE TABLE schema.table ( header,
\* the conversion returns exactly the error marker, as a value.
C1_ErrorMarkerWithoutHeader ==
  (pc = "done" /\ ~ContainsHeader(oracle_sql)) => result = ErrorMarker

\* a conversion that ended with the marker on a text that names CREATE TABLE
\* but has no schema-qualified header
C1_Witness ==
  /\ pc = "done"
  /\ result = ErrorMarker
  /\ Contains(oracle_sql, <<"CREATE", " ", "TABLE">>)
  /\ ~ContainsHeader(oracle_sql)

Opens(s, a, j) == Cardinality({k \in a..j : s[k] = "("})
Closes(s, a, j) == Cardinality({k \in a..j : s[k] = ")"})

\* the position of the ")" that matches the "(" at open, 0 when unmatched
MatchOf(s, open) ==
  LET C == {j \in open..Len(s) : s[j] = ")" /\ Opens(s, open, j) = Closes(s, open, j)}
  IN IF C = {} THEN 0 ELSE Min(C)

\* every ")" closes an earlier "(" and none is left open
Balanced(s) ==
  /\ Opens(s, 1, Len(s)) = Closes(s, 1, Len(s))
  /\ \A j \in 1..Len(s) : Closes(s, 1, j) <= Opens(s, 1, j)

\* the first position where a header starts
FirstHeader(s) == Min({i \in 1..Len(s) : HeaderShapeAt(s, i)})

\* the states right after the block was extracted and after it was split;
\* oracle_sql, create_block and inner do not change later
Extracted == pc \in {"split", "strip"}

\* C10 as stated: the scan ends; when the header's "(" has a matching ")",
\* the block runs from the CREATE TABLE keyword through exactly that ")", its
\* parentheses are balanced, and the item list handed to the splitter is
\* exactly the text strictly between the two.
C10_ItemListIsInterior ==
  Extracted =>
    LET m == FirstHeader(oracle_sql)
        open == FindAtom(oracle_sql, m, "(")
        close == MatchOf(oracle_sql, open)
        last == IF close = 0 THEN Len(oracle_sql) ELSE close
    IN /\ pc = "split" => create_block = SubSeq(oracle_sql, m, last)
       /\ close # 0 =>
            /\ Balanced(create_block)
            /\ pc # "split" => inner = SubSeq(oracle_sql, open + 1, close - 1)

\* C10, amended: the scan ends; when the header's "(" has a matching ")", the
\* block runs from the CREATE TABLE keyword through exactly that ")", its
\* parentheses are balanced, and the item list is the text strictly between
\* the two with every "name"."name" pair reduced to its second name and
\* every other double quote removed.  Without a match the scan ends at the
\* end of the text.
C10_BlockEndsAtMatchingParen ==
  Extracted =>
    LET m == FirstHeader(oracle_sql)
        open == FindAtom(oracle_sql, m, "(")
        close == MatchOf(oracle_sql, open)
        last == IF close = 0 THEN Len(oracle_sql) ELSE close
        block == SubSeq(oracle_sql, m, last)
    IN /\ create_block = IF pc = "split" THEN block ELSE StripQuotes(block)
       /\ close # 0 =>
            /\ Balanced(create_block)
            /\ pc # "split" =>
                 inner = StripQuotes(SubSeq(oracle_sql, open + 1, close - 1))

\* a block with quoted names and nested parentheses that is followed by
\* more text
C10_Witness ==
  /\ pc = "strip"
  /\ idx = 1
  /\ Contains(inner, <<"(">>)
  /\ Contains(oracle_sql, <<"\"">>)
  /\ LET open == FindAtom(oracle_sql, FirstHeader(oracle_sql), "(")
     IN MatchOf(oracle_sql, open) # 0 /\ MatchOf(oracle_sql, open) < Len(oracle_sql)

\* ------------------------------------------------ properties: C2, C3

\* the column list of the ALTER TABLE statement of the normalized text
PendingKey == ExtractPrimaryKeyField(oracle_sql)

Converted == pc = "done" /\ result # ErrorMarker

KeyClause(cols) == <<"PRIMARY", " ", "KEY", " ", "(">> \o cols \o <<")">>
AutoClause(col) ==
  col \o <<" ", "INTEGER", " ", "PRIMARY", " ", "KEY", " ", "AUTOINCREMENT">>
Occurrences(list, x) == Cardinality({k \in 1..Len(list) : list[k] = x})
StartsWith(s, lit) == ExactAt(s, 1, lit)
EndsWith(s, lit) == ExactAt(s, Len(s) - Len(lit) + 1, lit)
IsAuto(it) == Contains(it, <<"AUTOINCREMENT">>)

NotQuote(a) == a # "\""
Unquoted(s) == SelectSeq(s, NotQuote)
IsName(s) == s # <<>> /\ \A k \in 1..Len(s) : IsWord(s[k])

\* the items that are a column named col with a DEFAULT <seq>.NEXTVAL
SeqColumns(col) ==
  {k \in 1..Len(items) :
     LET pts == SplitWords(items[k], 1) IN
     /\ Len(pts) >= 3
     /\ UpperSeq(pts[1]) = UpperSeq(col)
     /\ HasDefaultSeq(Join(SubSeq(pts, 3, Len(pts)), <<" ">>))}

\* C2: with PRIMARY KEY (<col>) in the ALTER TABLE statement (quoted or not)
\* and a column named <col> that has a sequence default, that column is
\* emitted as <col> INTEGER PRIMARY KEY AUTOINCREMENT, the pending key is
\* cleared, exactly one item is rewritten and no PRIMARY KEY (<col>) item
\* is emitted.
C2_SequenceKeyConsumed ==
  (/\ Converted
   /\ PendingKey # None
   /\ IsName(Unquoted(PendingKey))
   /\ SeqColumns(Unquoted(PendingKey)) # {}) =>
    /\ primary_key_field = None
    /\ Cardinality({k \in 1..Len(cleaned_items) : IsAuto(cleaned_items[k])}) = 1
    /\ \E k \in SeqColumns(Unquoted(PendingKey)) :
         Occurrences(cleaned_items, AutoClause(SplitWords(items[k], 1)[1])) = 1
    /\ \A k \in 1..Len(cleaned_items) :
         ~StartsWith(cleaned_items[k], <<"PRIMARY", " ", "KEY">>)

\* ------------------------------------------------ properties: C4, C6, C7

\* a comma outside every parenthesis pair of s
TopComma(s, k) == s[k] = "," /\ Opens(s, 1, k) = Closes(s, 1, k)

RECURSIVE TopPieces(_, _)
\* the pieces of s between its top-level commas, from piece start b
TopPieces(s, b) ==
  LET K == {k \in b..Len(s) : TopComma(s, k)} IN
  IF K = {} THEN <<Slice(s, b, Len(s) + 1)>>
  ELSE <<Slice(s, b, Min(K))>> \o TopPieces(s, Min(K) + 1)

\* the trimmed pieces of s between its commas of depth 0
TopLevelItems(s) ==
  LET pieces == TopPieces(s, 1) IN [k \in 1..Len(pieces) |-> Strip(pieces[k])]

\* C4: the interior of a balanced block is split at a comma if and only if
\* the comma is at depth 0; the items keep their order.
C4_SplitAtTopLevelCommas ==
  (Extracted /\ pc = "strip" /\ Balanced(inner)) => items = TopLevelItems(inner)

HasAtom(s, A) == \E k \in 1..Len(s) : Upper(s[k]) \in A

\* C6: a converted output holds no comment marker, no NOVALIDATE, no
\* TABLESPACE clause and no part of a STORAGE (...) clause.
C6_NoiseNeverInOutput ==
  Converted =>
    /\ ~Contains(result, <<"-", "-">>)
    /\ ~Contains(result, <<"/", "*">>)
    /\ ~Contains(result, <<"*", "/">>)
    /\ ~Contains(UpperSeq(result), NOVALIDATE)
    /\ ~HasAtom(result, {"TABLESPACE", "STORAGE", "INITIAL", "NEXT"})

\* C7: the preprocessor applied to its own output changes nothing.
C7_PreprocessIdempotent ==
  pc # "preprocess" => Preprocess(oracle_sql) = oracle_sql

\* ------------------------------------------------ properties: C5, C8, C9

AllZero(d) == \A k \in 1..Len(d) : d[k] = "0"

\* NUMBER(p,s): the start of s, 0 when the token has another shape
ScaleStart(u) ==
  LET p == Digit1(u, 3)
      q == Digit1(u, Chr(u, p, ","))
  IN IF ExactAt(u, 1, <<"NUMBER", "(">>) /\ q = Len(u) /\ At(u, q) = ")"
     THEN p + 1 ELSE 0

\* the type table of the specification applied to a type token
TableType(tok) ==
  LET u == UpperSeq(tok) IN
  IF ScaleStart(u) # 0
  THEN IF AllZero(Slice(u, ScaleStart(u), Len(u))) THEN <<"INTEGER">> ELSE <<"REAL">>
  ELSE IF StartsWith(u, <<"NUMBER">>) THEN <<"INTEGER">>
  ELSE IF StartsWith(u, VARCHAR2) \/ StartsWith(u, <<"CHAR">>) \/ StartsWith(u, <<"CLOB">>)
  THEN <<"TEXT">>
  ELSE IF StartsWith(u, <<"DATE">>) \/ StartsWith(u, <<"TIMESTAMP">>) THEN <<"TEXT">>
  ELSE IF StartsWith(u, <<"BLOB">>) THEN <<"BLOB">>
  ELSE tok

\* the item is a table-level constraint, not a column definition
IsConstraint(pts) ==
  pts # <<>> /\ UpperSeq(pts[1]) \in {<<"CHECK">>, <<"UNIQUE">>, <<"CONSTRAINT">>}

\* the type fix took a column with type token pts[2] to the table's type
TableTypeApplied(old, new, pk) ==
  LET pts == SplitWords(old, 1) IN
  (Len(pts) >= 2 /\ ~IsConstraint(pts) /\ ~IsSequenceKey(pts, pk)) =>
    LET out == SplitWords(new, 1) IN Len(out) >= 2 /\ out[2] = TableType(pts[2])

\* C5: the type token of a column is mapped by the ordered table: NUMBER(p,0)
\* to INTEGER, NUMBER(p,s) with s > 0 to REAL, every other NUMBER to INTEGER,
\* VARCHAR2, CHAR, CLOB, DATE, TIMESTAMP to TEXT, BLOB to BLOB, and every
\* other token is passed through unchanged.
C5_TypeTable ==
  [][pc = "fix_type" => TableTypeApplied(item, item', primary_key_field)]_vars

\* the type fix left a constraint item as it was, token by token
ConstraintKept(old, new) ==
  IsConstraint(SplitWords(old, 1)) => SplitWords(new, 1) = SplitWords(old, 1)

\* C8: type mapping touches column definitions only; a CHECK or UNIQUE item
\* keeps its parenthesised expression whatever names it mentions.
C8_ConstraintExpressionKept ==
  [][pc = "fix_type" => ConstraintKept(item, item')]_vars

RECURSIVE BackWord(_, _)
\* the start of the word that ends before position k
BackWord(s, k) == IF IsWord(At(s, k - 1)) THEN BackWord(s, k - 1) ELSE k
RECURSIVE BackSpace(_, _)
BackSpace(s, k) == IF IsSpace(At(s, k - 1)) THEN BackSpace(s, k - 1) ELSE k

\* IN (<list>) starts at i: the position of the closing ")", 0 otherwise
InListAt(s, i) ==
  LET p == Chr(s, SkipSpace(s, i + 1), "(")
      c == IF p = 0 THEN 0 ELSE FindAtom(s, p, ")")
  IN IF /\ LitAt(s, i, <<"IN">>)
        /\ ~IsWord(At(s, i - 1))
        /\ c # 0
        /\ ~Contains(Slice(s, p, c), <<"(">>)
     THEN c ELSE 0

IsNull(el) == UpperSeq(el) = <<"NULL">>
NotNull(el) == ~IsNull(el)
ListOf(s, i) == TopLevelItems(Slice(s, Chr(s, SkipSpace(s, i + 1), "("), InListAt(s, i)))
HasNull(list) == \E k \in 1..Len(list) : IsNull(list[k])

RECURSIVE NullRewrite(_, _)
\* every <expr> IN (<list with NULL>) from position i on rewritten to
\* <expr> IN (<list without NULL>) OR <expr> IS NULL
NullRewrite(s, i) ==
  IF i > Len(s) THEN <<>>
  ELSE IF InListAt(s, i) # 0 /\ HasNull(ListOf(s, i))
  THEN LET e == BackSpace(s, i)
       IN <<"IN", " ", "(">> \o Join(SelectSeq(ListOf(s, i), NotNull), <<",", " ">>)
            \o <<")", " ", "OR", " ">> \o Slice(s, BackWord(s, e), e)
            \o <<" ", "IS", " ", "NULL">> \o NullRewrite(s, InListAt(s, i) + 1)
  ELSE <<s[i]>> \o NullRewrite(s, i + 1)

NotSpace(a) == ~IsSpace(a)
\* the text without its blanks
Solid(s) == SelectSeq(s, NotSpace)

\* C9: an IN-list that holds NULL (first, middle or last) is rewritten to
\* the list without NULL followed by OR <expr> IS NULL; other items are
\* left as they are (blanks aside).
C9_NullMembershipRewrite ==
  [][pc = "fix_in" => Solid(item') = Solid(NullRewrite(item, 1))]_vars

====
